---------------------------- MODULE Spec2Model ----------------------------
(* A model of src/compara.py: preparar_dados (the alignment of the daily  *)
(* death series on the day each region reaches p1 deaths) and rodar_modelo *)
(* (selection of the most correlated regions, their weights, the day by    *)
(* day projection and the peak summary).                                   *)
(*                                                                         *)
(* The program computes with float64.  A value is modelled as a record     *)
(*   [k |-> "num", n, d]  the rational n/d in lowest terms, d > 0          *)
(*   [k |-> "nan", ...]   NaN (pandas' "no data")                          *)
(*   [k |-> "inf", n]     +infinity (n = 1) or -infinity (n = -1)          *)
(*   [k |-> "big", n]     +/- the largest finite float64 (nan_to_num(inf)) *)
(* with the IEEE-754 rules for the operations the program applies.         *)
(* Rounding is not modelled: finite arithmetic is exact.                    *)
EXTENDS Integers, Sequences, FiniteSets, TLC

VARIABLES
    pc,              \* position in the script (lines 302-303)
    err,             \* name of the exception raised, "" if none
    p1, p2, p3, p4,  \* macro parameters (lines 295-298)
    ref,             \* reference cut (line 300)
    raw,             \* region -> full daily series (line 81)
    popu,            \* region -> population, for regions that have one (88-90)
    sp,              \* cumulative deaths of the state rows, newest first (94, 102)
    city,            \* cumulative deaths of the city rows, newest first (94, 110)
    inicio,          \* region -> onset index, 0-based (line 97)
    data,            \* column -> aligned series (AlignedTable)
    nbr,             \* length of the target's aligned series (line 99)
    popuBR,          \* cut -> population (lines 130-135)
    por100k,         \* cut -> series per 100k inhabitants (lines 138-143)
    pearson,         \* column -> correlation with ref: pearson[ref] (line 172)
    correlacionados, \* the selected comparators, in order (line 186)
    calibrados,      \* column -> smoothed series per 100k (lines 196-210)
    pesos,           \* comparator -> weight (lines 217-219)
    proj,            \* projected series (lines 222-238)
    contrib,         \* comparator -> its addend to x on the last projected day
    infos            \* peak summary (lines 245-257)

vars == <<pc, err, p1, p2, p3, p4, ref, raw, popu, sp, city, inicio, data, nbr,
          popuBR, por100k, pearson, correlacionados, calibrados, pesos, proj,
          contrib, infos>>

prepVars == <<p1, p4, raw, popu, sp, city>>
modelVars == <<p2, p3, ref, pearson, correlacionados, calibrados, pesos, proj,
               contrib, infos>>

-----------------------------------------------------------------------------
(* Bounds of the model *)

\* days of raw data in the runs of preparar_dados
NDays == 4
\* days of raw data in the runs of rodar_modelo
ModelDays == 4
\* longest aligned series of the target in the runs of rodar_modelo
MaxNbr == 3
\* resolution of a correlation coefficient that is none of -1, 0, 1: multiples of 1/CorrDen
CorrDen == 2

\* macro parameters of the script
DefaultP1 == 3
DefaultP2 == 5
DefaultP3 == 7

-----------------------------------------------------------------------------
(* float64 values *)

Abs(i) == IF i < 0 THEN -i ELSE i
Sign(i) == IF i < 0 THEN -1 ELSE IF i = 0 THEN 0 ELSE 1

RECURSIVE GCD(_, _)
GCD(a, b) == IF b = 0 THEN a ELSE GCD(b, a % b)

Num(n, d) ==
    LET s == IF d < 0 THEN -1 ELSE 1
        g == GCD(Abs(n), Abs(d))
    IN  [k |-> "num", n |-> (s * n) \div g, d |-> Abs(d) \div g]

Int2F(i) == Num(i, 1)
NaN == [k |-> "nan", n |-> 0, d |-> 0]
Inf(s) == [k |-> "inf", n |-> s, d |-> 0]
Big(s) == [k |-> "big", n |-> s, d |-> 0]
Zero == Int2F(0)
One == Int2F(1)

isnan(a) == a.k = "nan"
IsNum(a) == a.k = "num"
IsZero(a) == a.k = "num" /\ a.n = 0
FSign(a) == Sign(a.n)

FAdd(a, b) ==
    IF isnan(a) \/ isnan(b) THEN NaN
    ELSE IF a.k = "inf" /\ b.k = "inf" THEN (IF a.n = b.n THEN a ELSE NaN)
    ELSE IF a.k = "inf" THEN a
    ELSE IF b.k = "inf" THEN b
    ELSE Num(a.n * b.d + b.n * a.d, a.d * b.d)

FMul(a, b) ==
    IF isnan(a) \/ isnan(b) THEN NaN
    ELSE IF a.k = "inf" \/ b.k = "inf"
         THEN (IF IsZero(a) \/ IsZero(b) THEN NaN ELSE Inf(FSign(a) * FSign(b)))
    ELSE Num(a.n * b.n, a.d * b.d)

\* numpy float64 division: x/0 is +/-inf and 0/0 is NaN (a RuntimeWarning, no exception)
FDiv(a, b) ==
    IF isnan(a) \/ isnan(b) THEN NaN
    ELSE IF a.k = "inf" /\ b.k = "inf" THEN NaN
    ELSE IF a.k = "inf" THEN Inf(a.n * (IF FSign(b) < 0 THEN -1 ELSE 1))
    ELSE IF b.k = "inf" THEN Zero
    ELSE IF IsZero(b) THEN (IF IsZero(a) THEN NaN ELSE Inf(FSign(a)))
    ELSE Num(a.n * b.d, a.d * b.n)

\* a < b on float64 (False when either is NaN)
FLt(a, b) ==
    IF isnan(a) \/ isnan(b) THEN FALSE
    ELSE LET rank(v) == IF v.k = "inf" THEN 2 * v.n
                        ELSE IF v.k = "big" THEN v.n ELSE 0
         IN  IF rank(a) # rank(b) THEN rank(a) < rank(b)
             ELSE IF a.k = "num" THEN a.n * b.d < b.n * a.d
             ELSE FALSE
FEq(a, b) == ~isnan(a) /\ ~isnan(b) /\ a = b
FLe(a, b) == FLt(a, b) \/ FEq(a, b)
FGe(a, b) == FLe(b, a)

-----------------------------------------------------------------------------
(* Sequences *)

Range(s) == {s[i] : i \in DOMAIN s}
Max(S) == CHOOSE m \in S : \A x \in S : x <= m
Min2(a, b) == IF a < b THEN a ELSE b

\* s[i:j] with Python's 0-based, end-exclusive, clipped slice
Slice(s, i, j) ==
    LET lo == Min2(i, Len(s))
        hi == Min2(j, Len(s))
    IN  IF hi <= lo THEN <<>> ELSE SubSeq(s, lo + 1, hi)

Reverse(s) == [i \in 1..Len(s) |-> s[Len(s) + 1 - i]]
Scale(s, f) == [i \in 1..Len(s) |-> FMul(s[i], f)]
Floats(s) == [i \in 1..Len(s) |-> Int2F(s[i])]

RECURSIVE SeqsOfLen(_, _)
SeqsOfLen(S, n) ==
    IF n = 0 THEN {<<>>}
    ELSE {Append(s, x) : s \in SeqsOfLen(S, n - 1), x \in S}

-----------------------------------------------------------------------------
(* Inputs of preparar_dados *)

Cuts == {"Brazil", "Brazil_sem_SP", "SP", "SP_City"}

\* locations.csv and the estimated_population_2019 column, for the regions of the runs
PopulationTable ==
    [Brazil |-> 200000, SP |-> 50000, SP_City |-> 20000,
     Italy |-> 100000, China |-> 1400000]

\* a day's deaths: none, or the onset threshold
Deaths == {0, DefaultP1}
\* the under-reporting factor: none, and the script's 1.48
P4Choices == {One, Num(37, 25)}
\* cumulative deaths of a state row
CumValues == {0, 1}

\* the other regions of new_deaths.csv in the runs of preparar_dados
PrepOthers == {"Italy"}

IsNonIncreasing(s) == \A i \in 1..(Len(s) - 1) : s[i] >= s[i + 1]

\* the state rows of the brasil.io table: newest first, cumulative
SpChoices ==
    UNION {{s \in SeqsOfLen(CumValues, n) : IsNonIncreasing(s)} : n \in 0..(NDays + 1)}

\* the city rows: all the state's deaths or none of them, over as many days or one fewer
CityChoices(st) ==
    {st, [i \in 1..Len(st) |-> 0], Slice(st, 1, Len(st))}

-----------------------------------------------------------------------------
(* preparar_dados *)

Unset == <<>>

\* raw.ge(p1).idxmax() on one column: the first index at or above p1, 0 when there is none
IdxMax(s, p) ==
    IF \E i \in 1..Len(s) : s[i] >= p
    THEN (CHOOSE i \in 1..Len(s) : s[i] >= p /\ \A j \in 1..(i - 1) : s[j] < p) - 1
    ELSE 0

\* [c[i] - c[i+1] for i in range(len(c)-1)], then reverse()
Daily(c) == Reverse([i \in 1..(Len(c) - 1) |-> c[i] - c[i + 1]])

\* data[col] = values: pandas refuses an array whose length is not the table's
LengthOk(values) == Len(values) = Len(data["Brazil"])

Onset ==
    /\ pc = "onset"
    /\ inicio' = [k \in DOMAIN raw |-> IdxMax(raw[k], p1)]
    /\ pc' = "brazil"
    /\ UNCHANGED <<err, data, nbr, popuBR, por100k>>
    /\ UNCHANGED <<prepVars, modelVars>>

BrazilColumn(series, start) == Scale(Floats(Slice(series, start, Len(series))), p4)

\* a plausible slip: the days of the raw table instead of those of the aligned one
NbrOfRaw(table) == Len(raw["Brazil"])

\* nbr = data.shape[0]
Nbr(table) == Len(table["Brazil"])

AddBrazil ==
    /\ pc = "brazil"
    /\ data' = [c \in {"Brazil"} |-> BrazilColumn(raw["Brazil"], inicio["Brazil"])]
    /\ nbr' = Nbr(data')
    /\ pc' = "sp"
    /\ UNCHANGED <<err, inicio, popuBR, por100k>>
    /\ UNCHANGED <<prepVars, modelVars>>

SP_estado == Daily(Slice(sp, 0, nbr + 1))
SP_city == Daily(Slice(city, 0, nbr + 1))

AddSP ==
    /\ pc = "sp"
    /\ IF LengthOk(SP_estado)
       THEN /\ data' = data @@ [c \in {"SP"} |-> Scale(Floats(SP_estado), p4)]
            /\ pc' = "sp_city"
            /\ err' = err
       ELSE /\ pc' = "raised"
            /\ err' = "ValueError"
            /\ data' = data
    /\ UNCHANGED <<inicio, nbr, popuBR, por100k>>
    /\ UNCHANGED <<prepVars, modelVars>>

AddSPCity ==
    /\ pc = "sp_city"
    /\ IF LengthOk(SP_city)
       THEN /\ data' = data @@ [c \in {"SP_City"} |-> Scale(Floats(SP_city), p4)]
            /\ pc' = "sem_sp"
            /\ err' = err
       ELSE /\ pc' = "raised"
            /\ err' = "ValueError"
            /\ data' = data
    /\ UNCHANGED <<inicio, nbr, popuBR, por100k>>
    /\ UNCHANGED <<prepVars, modelVars>>

\* [x[0]-x[1] for x in zip(list(data['Brazil']), SP_estado)]
BrExSp(brazil, estado) ==
    [i \in 1..Min2(Len(brazil), Len(estado)) |-> FAdd(brazil[i], Int2F(-estado[i]))]

AddBrazilSemSP ==
    /\ pc = "sem_sp"
    /\ LET br_ex_sp == BrExSp(data["Brazil"], SP_estado)
       IN  IF LengthOk(br_ex_sp)
           THEN /\ data' = data @@ [c \in {"Brazil_sem_SP"} |-> br_ex_sp]
                /\ pc' = "countries"
                /\ err' = err
           ELSE /\ pc' = "raised"
                /\ err' = "ValueError"
                /\ data' = data
    /\ UNCHANGED <<inicio, nbr, popuBR, por100k>>
    /\ UNCHANGED <<prepVars, modelVars>>

\* the three "continue" tests of the loop over inicio.keys()
Skipped(k) ==
    \/ k = "Brazil"
    \/ k \notin DOMAIN popu
    \/ inicio[k] = 0
    \/ inicio[k] > inicio["Brazil"]

CountryColumn(k) == Floats(Slice(raw[k], inicio[k], inicio[k] + nbr))

AddCountries ==
    /\ pc = "countries"
    /\ LET kept == {k \in DOMAIN inicio : ~Skipped(k)}
       IN  IF \A k \in kept : LengthOk(CountryColumn(k))
           THEN /\ data' = data @@ [k \in kept |-> CountryColumn(k)]
                /\ pc' = "normalize"
                /\ err' = err
           ELSE /\ pc' = "raised"
                /\ err' = "ValueError"
                /\ data' = data
    /\ UNCHANGED <<inicio, nbr, popuBR, por100k>>
    /\ UNCHANGED <<prepVars, modelVars>>

Per100k == 100000

PopuBR(estado_popu, city_popu) ==
    [Brazil |-> popu["Brazil"], SP |-> estado_popu, SP_City |-> city_popu,
     Brazil_sem_SP |-> popu["Brazil"] - estado_popu]

\* values * (10**5) / population
Normalized(series, population) ==
    [i \in 1..Len(series) |-> FDiv(FMul(series[i], Int2F(Per100k)), Int2F(population))]

Normalize ==
    /\ pc = "normalize"
    /\ popuBR' = PopuBR(PopulationTable["SP"], PopulationTable["SP_City"])
    /\ por100k' = [c \in Cuts |-> Normalized(data[c], popuBR'[c])]
    /\ pc' = "prepared"
    /\ UNCHANGED <<err, inicio, data, nbr>>
    /\ UNCHANGED <<prepVars, modelVars>>

InitPrep ==
    /\ pc = "onset"
    /\ err = ""
    /\ p1 = DefaultP1
    /\ p4 \in P4Choices
    /\ raw \in [{"Brazil"} \cup PrepOthers -> SeqsOfLen(Deaths, NDays)]
    /\ \E S \in SUBSET PrepOthers :
           popu = [k \in {"Brazil"} \cup S |-> PopulationTable[k]]
    /\ sp \in SpChoices
    /\ city \in CityChoices(sp)
    /\ inicio = Unset /\ data = Unset /\ nbr = 0
    /\ popuBR = Unset /\ por100k = Unset
    /\ p2 = DefaultP2 /\ p3 = DefaultP3 /\ ref = "SP_City"
    /\ pearson = Unset /\ correlacionados = Unset /\ calibrados = Unset
    /\ pesos = Unset /\ proj = Unset /\ contrib = Unset /\ infos = Unset

NextPrep ==
    \/ Onset
    \/ AddBrazil
    \/ AddSP
    \/ AddSPCity
    \/ AddBrazilSemSP
    \/ AddCountries
    \/ Normalize

SpecPrep == InitPrep /\ [][NextPrep]_vars

-----------------------------------------------------------------------------
(* rodar_modelo *)

RECURSIVE FSum(_)
\* sum(list): 0 + list[0] + list[1] + ...
FSum(s) == IF s = <<>> THEN Zero ELSE FAdd(FSum(SubSeq(s, 1, Len(s) - 1)), s[Len(s)])

FSub(a, b) == FAdd(a, FMul(b, Int2F(-1)))
Products(x, y) == [i \in 1..Len(x) |-> FMul(x[i], y[i])]

\* n * sum(xy) - sum(x) * sum(y): n^2 times the covariance of two columns
Cov(x, y) == FSub(FMul(Int2F(Len(x)), FSum(Products(x, y))), FMul(FSum(x), FSum(y)))

\* DataFrame.corr() for one pair of columns: cov/sqrt(var*var).  It is NaN when a column
\* is constant, and exactly 0, 1 or -1 when the covariance says so ("nan", "0", "+1",
\* "-1"); any other value is irrational in general ("+" or "-", its sign)
PearsonClass(x, y) ==
    LET c == Cov(x, y)
        v == FMul(Cov(x, x), Cov(y, y))
    IN  IF IsZero(v) THEN "nan"
        ELSE IF IsZero(c) THEN "0"
        ELSE IF FMul(c, c) = v THEN (IF FSign(c) > 0 THEN "+1" ELSE "-1")
        ELSE IF FSign(c) > 0 THEN "+" ELSE "-"

\* the coefficient of a class; one strictly between 0 and 1 in size is modelled by m/CorrDen
PearsonValue(class, m) ==
    CASE class = "nan" -> NaN
      [] class = "0" -> Zero
      [] class = "+1" -> One
      [] class = "-1" -> Int2F(-1)
      [] class = "+" -> Num(m, CorrDen)
      [] class = "-" -> Num(-m, CorrDen)

Correlate ==
    /\ pc = "prepared"
    /\ LET class == [c \in DOMAIN data |-> PearsonClass(data[c], data[ref])]
       IN  \E m \in [{c \in DOMAIN data : class[c] \in {"+", "-"}} -> 1..(CorrDen - 1)] :
              pearson' = [c \in DOMAIN data |->
                             PearsonValue(class[c], IF c \in DOMAIN m THEN m[c] ELSE 1)]
    /\ pc' = "select"
    /\ UNCHANGED <<err, p1, p2, p3, p4, ref, raw, popu, sp, city, inicio, data, nbr, popuBR,
                   por100k, correlacionados, calibrados, pesos, proj, contrib, infos>>

\* the order of sort_values(ascending=False): a before b (NaN goes last)
Before(r, a, b) == ~isnan(r[a]) /\ (isnan(r[b]) \/ FLt(r[b], r[a]))

RECURSIVE SortedOrders(_, _)
\* the orders sort_values(ascending=False) may return; the order of ties is the library's
SortedOrders(r, S) ==
    IF S = {} THEN {<<>>}
    ELSE UNION {{<<m>> \o t : t \in SortedOrders(r, S \ {m})} :
                    m \in {a \in S : \A b \in S : ~Before(r, b, a)}}

out == {"Brazil", "Brazil_sem_SP", "SP", "SP_City"}

\* a plausible slip: the local cuts are not left out
EligibleAll(keys) == keys

\* the keys of pearson[ref] that "if _ not in out" keeps
Eligible(keys) == {k \in keys : k \notin out}

\* keys[:n] for n >= 0
Take(keys, n) == Slice(keys, 0, n)

\* [_ for _ in pearson[ref].sort_values(ascending=False).keys() if _ not in out][:p2]
\* The kept keys stay in the order the sort gave them, so the lists the comprehension
\* may build are the sorted orders of the kept keys
Correlacionados(r, n) == {Take(o, n) : o \in SortedOrders(r, Eligible(DOMAIN r))}

Select ==
    /\ pc = "select"
    /\ correlacionados' \in Correlacionados(pearson, p2)
    /\ pc' = "calibrate"
    /\ UNCHANGED <<err, p1, p2, p3, p4, ref, raw, popu, sp, city, inicio, data, nbr, popuBR,
                   por100k, pearson, calibrados, pesos, proj, contrib, infos>>

ChinaPopu == 15000000

\* the column added for comparator k: all of raw[k] from its onset, per 100k inhabitants
Additional(k) ==
    LET C == Floats(Slice(raw[k], inicio[k], Len(raw[k])))
    IN  IF k = "China" THEN Normalized(C, ChinaPopu) ELSE Normalized(C, popu[k])

\* pd.concat(axis=1): the shorter columns are filled with NaN at the end
Pad(s, n) == [i \in 1..n |-> IF i <= Len(s) THEN s[i] ELSE NaN]

\* rolling(w).mean() on one column: NaN until w values are there and where one is NaN
Rolling(s, w) ==
    [i \in 1..Len(s) |->
        IF i < w \/ \E j \in (i - w + 1)..i : isnan(s[j])
        THEN NaN
        ELSE FDiv(FSum(SubSeq(s, i - w + 1, i)), Int2F(w))]

Calibrados(cols, w) ==
    LET n == Max({Len(cols[c]) : c \in DOMAIN cols})
    IN  [c \in DOMAIN cols |-> Rolling(Pad(cols[c], n), w)]

\* calibrados.shape[0]
Shape0(table) == Len(table[ref])

Calibrate ==
    /\ pc = "calibrate"
    /\ calibrados' =
          Calibrados([c \in {ref} \cup Range(correlacionados) |->
                         IF c = ref THEN por100k[ref] ELSE Additional(c)], p3)
    /\ pc' = "weights"
    /\ UNCHANGED <<err, p1, p2, p3, p4, ref, raw, popu, sp, city, inicio, data, nbr, popuBR,
                   por100k, pearson, correlacionados, pesos, proj, contrib, infos>>

\* pesos[i]/sum(pesos)
Normalizados(ps) == [i \in 1..Len(ps) |-> FDiv(ps[i], FSum(ps))]

Pesos(r, cs) ==
    LET ps == Normalizados([i \in 1..Len(cs) |-> r[cs[i]]])
    IN  [c \in Range(cs) |-> ps[CHOOSE i \in 1..Len(cs) : cs[i] = c]]

Weights ==
    /\ pc = "weights"
    /\ pesos' = Pesos(pearson, correlacionados)
    /\ pc' = "seed"
    /\ UNCHANGED <<err, p1, p2, p3, p4, ref, raw, popu, sp, city, inicio, data, nbr, popuBR,
                   por100k, pearson, correlacionados, calibrados, proj, contrib, infos>>

\* a plausible slip: the seed is the last value of ref before the smoothing
SeedProjUnsmoothed(n, table) == [i \in 1..n |-> IF i = n THEN por100k[ref][n] ELSE NaN]

\* proj = [nan] * nbr; proj[-1] = calibrados[ref][nbr - 1]
SeedProj(n, table) == [i \in 1..n |-> IF i = n THEN table[ref][n] ELSE NaN]

Seed ==
    /\ pc = "seed"
    /\ proj' = SeedProj(nbr, calibrados)
    /\ pc' = "project"
    /\ UNCHANGED <<err, p1, p2, p3, p4, ref, raw, popu, sp, city, inicio, data, nbr, popuBR,
                   por100k, pearson, correlacionados, calibrados, pesos, contrib, infos>>

\* what comparator c adds to x on day d (0-based): column[d] is column[d + 1] here
Incremento(column, d, peso) ==
    IF ~isnan(column[d + 1])
    THEN FMul(FDiv(column[d + 1], column[d]), peso)
    ELSE FMul(One, peso)

\* for d in range(nbr, calibrados.shape[0])
LoopDays(n, table) == n..(Shape0(table) - 1)

ProjectDay ==
    /\ pc = "project"
    /\ Len(proj) \in LoopDays(nbr, calibrados)
    /\ LET d == Len(proj)
           incs == [c \in Range(correlacionados) |-> Incremento(calibrados[c], d, pesos[c])]
           x == FAdd(Zero, FSum([i \in 1..Len(correlacionados) |-> incs[correlacionados[i]]]))
       IN  /\ contrib' = incs
           /\ proj' = Append(proj, FMul(proj[Len(proj)], x))
    /\ UNCHANGED <<pc, err, p1, p2, p3, p4, ref, raw, popu, sp, city, inicio, data, nbr,
                   popuBR, por100k, pearson, correlacionados, calibrados, pesos, infos>>

\* np.nan_to_num: NaN becomes 0.0 and an infinity the largest finite float of its sign
NanToNum(s) ==
    [i \in 1..Len(s) |-> IF isnan(s[i]) THEN Zero
                         ELSE IF s[i].k = "inf" THEN Big(s[i].n) ELSE s[i]]

\* array.max() of an array without NaN
FMax(s) == CHOOSE m \in Range(s) : \A v \in Range(s) : FLe(v, m)

\* list.index(v): the first position whose element equals v, -1 where Python raises ValueError
Index(s, v) ==
    IF \E i \in 1..Len(s) : FEq(s[i], v)
    THEN (CHOOSE i \in 1..Len(s) : FEq(s[i], v) /\ \A j \in 1..(i - 1) : ~FEq(s[j], v)) - 1
    ELSE -1

\* int(f) of a finite float: truncation towards zero
Trunc(f) == Sign(f.n) * (Abs(f.n) \div f.d)

Peak ==
    /\ pc = "project"
    /\ Len(proj) \notin LoopDays(nbr, calibrados)
    /\ LET pico == FMax(NanToNum(proj))
           ix_do_pico == Index(proj, pico)
       IN  IF ~IsNum(pico)
           THEN \* pico * popuBR[ref] overflows to inf and int(inf) raises
                /\ pc' = "raised" /\ err' = "OverflowError" /\ infos' = infos
           ELSE IF ix_do_pico = -1
           THEN /\ pc' = "raised" /\ err' = "ValueError" /\ infos' = infos
           ELSE /\ infos' = [mortes_no_pico |->
                                Trunc(FDiv(FMul(pico, Int2F(popuBR[ref])), Int2F(Per100k))),
                            dia_do_pico |-> ix_do_pico - nbr,
                            pico |-> pico,
                            index |-> ix_do_pico]
                /\ pc' = "done" /\ err' = err
    /\ UNCHANGED <<p1, p2, p3, p4, ref, raw, popu, sp, city, inicio, data, nbr, popuBR,
                   por100k, pearson, correlacionados, calibrados, pesos, proj, contrib>>

-----------------------------------------------------------------------------
(* Inputs of rodar_modelo: what preparar_dados returns *)

\* the other countries of the runs; both have a population
ModelOthers == {"China", "Italy"}
P2Choices == {0, 1, 2}
P3Choices == {1, 2}
RefChoices == {"SP_City", "Brazil_sem_SP"}

Zeros(n) == [i \in 1..n |-> 0]

\* the raw columns of n days with onset index i: no deaths before the onset, the
\* threshold on the onset day
RawWithOnset(i, n) == {Zeros(i) \o <<DefaultP1>> \o t : t \in SeqsOfLen(Deaths, n - i - 1)}

\* the columns of the cuts when all the deaths of the target are in the city
CutColumn(c, brazil) ==
    IF c = "Brazil_sem_SP" THEN [i \in 1..Len(brazil) |-> FSub(brazil[i], brazil[i])]
    ELSE brazil

InitModel ==
    /\ pc = "prepared"
    /\ err = ""
    /\ p1 = DefaultP1
    /\ p4 = One
    /\ p2 \in P2Choices
    /\ p3 \in P3Choices
    /\ ref \in RefChoices
    /\ nbr \in 1..MaxNbr
    /\ nbr <= ModelDays
    /\ \E kept \in SUBSET ModelOthers :
          /\ kept # {} => nbr < ModelDays
          /\ \E brazil \in RawWithOnset(ModelDays - nbr, ModelDays),
                others \in [kept -> UNION {RawWithOnset(i, ModelDays) : i \in 1..(ModelDays - nbr)}] :
                raw = [k \in {"Brazil"} \cup kept |-> IF k = "Brazil" THEN brazil ELSE others[k]]
          /\ popu = [k \in {"Brazil"} \cup kept |-> PopulationTable[k]]
    /\ inicio = [k \in DOMAIN raw |-> IdxMax(raw[k], p1)]
    /\ data = [c \in DOMAIN inicio \cup Cuts |->
                  IF c \in Cuts
                  THEN CutColumn(c, BrazilColumn(raw["Brazil"], inicio["Brazil"]))
                  ELSE CountryColumn(c)]
    /\ popuBR = PopuBR(PopulationTable["SP"], PopulationTable["SP_City"])
    /\ por100k = [c \in Cuts |-> Normalized(data[c], popuBR[c])]
    /\ sp = Unset /\ city = Unset
    /\ pearson = Unset /\ correlacionados = Unset /\ calibrados = Unset
    /\ pesos = Unset /\ proj = Unset /\ contrib = Unset /\ infos = Unset

NextModel ==
    \/ Correlate
    \/ Select
    \/ Calibrate
    \/ Weights
    \/ Seed
    \/ ProjectDay
    \/ Peak

SpecModel == InitModel /\ [][NextModel]_vars

-----------------------------------------------------------------------------
(* Properties of preparar_dados, checked under SpecPrep *)

\* the target's raw series reaches the onset threshold on some day
TargetReaches == \E i \in 1..Len(raw["Brazil"]) : raw["Brazil"][i] >= p1

\* the uncorrected daily series of the state and of the city over the aligned window
SPRaw == Daily(Slice(sp, 0, nbr + 1))
SPCityRaw == Daily(Slice(city, 0, nbr + 1))

\* C3: when the target's raw series never reaches p1, preparar_dados builds no
\* AlignedTable and no nbr from a default onset index: the run stops with an error
C3_MissingOnsetIsFatal ==
    ~TargetReaches => (data = Unset /\ nbr = 0 /\ pc \in {"onset", "brazil", "raised"})

\* C7: every column of the AlignedTable (the target, its cuts, every included other
\* region) has exactly nbr entries, and nbr is the number of days of the target's raw
\* series from its onset index to the end
C7_AlignedLength ==
    data # Unset =>
        /\ nbr = Len(raw["Brazil"]) - inicio["Brazil"]
        /\ \A c \in DOMAIN data : Len(data[c]) = nbr

\* C7 witness: the table is complete, holds another region that started before the
\* target, and the window is shorter than that region's series from its onset
C7_Witness ==
    /\ pc = "prepared"
    /\ Cuts \subseteq DOMAIN data
    /\ "Italy" \in DOMAIN data
    /\ inicio["Italy"] < inicio["Brazil"]
    /\ nbr >= 2

\* C9: p4 multiplies every series derived from the target and no other: each cut is p4
\* times its uncorrected daily series, so Brazil_sem_SP = p4 * (Brazil_raw - SP_raw) and
\* SP + Brazil_sem_SP = Brazil on every day, and the other countries keep their raw values
C9_CorrectionFactor ==
    pc = "prepared" =>
        /\ \A i \in 1..nbr :
              LET brazil_raw == raw["Brazil"][inicio["Brazil"] + i]
              IN  /\ data["Brazil"][i] = FMul(Int2F(brazil_raw), p4)
                  /\ data["SP"][i] = FMul(Int2F(SPRaw[i]), p4)
                  /\ data["SP_City"][i] = FMul(Int2F(SPCityRaw[i]), p4)
                  /\ data["Brazil_sem_SP"][i] = FMul(Int2F(brazil_raw - SPRaw[i]), p4)
                  /\ FAdd(data["SP"][i], data["Brazil_sem_SP"][i]) = data["Brazil"][i]
        /\ \A k \in DOMAIN data \ Cuts :
              \A i \in 1..nbr : data[k][i] = Int2F(raw[k][inicio[k] + i])

\* C10: when the target has an onset, another region is a column of the AlignedTable if
\* and only if it has a population and its raw series reaches p1 on a day whose index is
\* between 0 and the target's onset index
C10_Inclusion ==
    (pc = "prepared" /\ TargetReaches) =>
        \A k \in DOMAIN raw \ {"Brazil"} :
            k \in DOMAIN data <=>
                /\ k \in DOMAIN popu
                /\ \E i \in 0..inicio["Brazil"] : raw[k][i + 1] >= p1

-----------------------------------------------------------------------------
(* Properties of rodar_modelo, checked under SpecModel *)

WeightsComputed == pc \in {"seed", "project", "done", "raised"}
Selection == pc \in {"calibrate", "weights", "seed", "project", "done", "raised"}
PeakRan == pc \in {"done", "raised"}
EligibleRegions == DOMAIN data \ Cuts

\* C1: the weights of a non-empty ComparatorSet are each non-negative and sum to 1,
\* whatever the correlation coefficients are
C1_Weights ==
    (WeightsComputed /\ correlacionados # <<>>) =>
        /\ \A c \in Range(correlacionados) : FGe(pesos[c], Zero)
        /\ FSum([i \in 1..Len(correlacionados) |-> pesos[correlacionados[i]]]) = One

\* C2: on every projected day d, a comparator whose calibrated value at day d-1 is zero
\* or missing adds exactly its weight (the neutral multiplier 1) to x
C2_NeutralMultiplier ==
    (pc \in {"project", "done", "raised"} /\ Len(proj) > nbr) =>
        \A c \in Range(correlacionados) :
            LET previous == calibrados[c][Len(proj) - 1]
            IN  (IsNum(pesos[c]) /\ (isnan(previous) \/ IsZero(previous)))
                    => contrib[c] = pesos[c]

\* C4: once projection starts the ProjectedSeries has no undefined entry: every index
\* d >= nbr holds a number
C4_NoGaps ==
    pc \in {"project", "done", "raised"} =>
        \A i \in (nbr + 1)..Len(proj) : ~isnan(proj[i])

\* the length of the longest series of the CalibratedTable: ref's, or a comparator's
\* from its onset to the end of the raw data
LongestSeries ==
    Max({Len(por100k[ref])} \cup
        {Len(raw[c]) - inicio[c] : c \in Range(correlacionados)})

\* C5: the ProjectedSeries is as long as the longest series of the CalibratedTable
\* (hence at least nbr), holds "no data" at every index below nbr-1, and at index nbr-1
\* holds the calibrated value of ref at index nbr-1
C5_Seam ==
    /\ pc \in {"project", "done", "raised"} =>
          /\ Len(proj) >= nbr
          /\ \A i \in 1..(nbr - 1) : isnan(proj[i])
          /\ proj[nbr] = calibrados[ref][nbr]
    /\ PeakRan => Len(proj) = LongestSeries

\* C5 witness: a returned series with projected days after a seam that the smoothing
\* has changed
C5_Witness ==
    /\ pc = "done"
    /\ nbr >= 2
    /\ Len(proj) > nbr
    /\ IsNum(proj[nbr])
    /\ proj[nbr] # por100k[ref][nbr]

\* C6: for every ProjectedSeries the PeakSummary is produced; its peak value is the
\* maximum of the series with "no data" read as zero, and its index is the first index
\* of the series that holds that maximum
C6_Peak ==
    PeakRan =>
        /\ pc = "done"
        /\ \A i \in 1..Len(proj) :
              FLe(IF isnan(proj[i]) THEN Zero ELSE proj[i], infos.pico)
        /\ infos.index \in 0..(Len(proj) - 1)
        /\ FEq(proj[infos.index + 1], infos.pico)
        /\ \A i \in 1..infos.index : ~FEq(proj[i], infos.pico)

\* descending order of two coefficients, an undefined one after every other
DescendingNaNLast(a, b) == isnan(b) \/ FGe(a, b)

\* the ComparatorSet holds none of the four cuts, holds min(K, eligible regions)
\* distinct eligible regions, is ordered by ge, and each member is ge each region left out
TopK(ge(_, _)) ==
    LET sel == correlacionados
    IN  /\ Range(sel) \cap Cuts = {}
        /\ Range(sel) \subseteq EligibleRegions
        /\ Len(sel) = Min2(p2, Cardinality(EligibleRegions))
        /\ Cardinality(Range(sel)) = Len(sel)
        /\ \A i, j \in 1..Len(sel) : i < j => ge(pearson[sel[i]], pearson[sel[j]])
        /\ \A a \in Range(sel), b \in EligibleRegions \ Range(sel) :
              ge(pearson[a], pearson[b])

\* C8 as stated: the ComparatorSet holds none of the four cuts, has min(K, eligible
\* regions) members, is ordered by descending correlation with ref, and every member's
\* correlation is >= that of every eligible region left out
C8_TopK_AsStated == Selection => TopK(FGe)

\* C8 amended: the same, where a region whose correlation with ref is undefined (NaN)
\* comes after every region whose correlation is defined
C8_TopK == Selection => TopK(DescendingNaNLast)

\* C8 witness: one of two eligible regions is selected, and its correlation is
\* strictly the larger one
C8_Witness ==
    /\ pc = "calibrate"
    /\ p2 = 1
    /\ Cardinality(EligibleRegions) = 2
    /\ Len(correlacionados) = 1
    /\ \E b \in EligibleRegions : FLt(pearson[b], pearson[correlacionados[1]])

=============================================================================
